---------------------------- MODULE Spec2Model ----------------------------
(***************************************************************************)
(* State-machine model of the Google-maps crawler:                         *)
(*   main.py               search_subject_and_location_input               *)
(*   primary_crawler.py    Primary_Stage_Subject_input.p_handler           *)
(*   secondary_crawler.py  Secondary_Stage.s_handler                       *)
(* The browser bootstrap (headers.py) and the SQL sink are environment:    *)
(* their outcomes are nondeterministic choices.                            *)
(***************************************************************************)
EXTENDS Integers, Sequences, FiniteSets, TLC

(***************************************************************************)
(* Program constants.                                                      *)
(***************************************************************************)
\* primary_crawler.py:21
RESULTS_PER_PAGE == 20

\* primary_crawler.py:128 sleep(61); secondary_crawler.py:149,165 61 - (time() - start)
RATE_WINDOW == 61

(***************************************************************************)
(* Bounds of the model.                                                    *)
(***************************************************************************)
\* secondary_crawler.py:36 sets CALL_RATE = 120.  A wave of 120 concurrent
\* fetches cannot be enumerated, so the model runs the same code with a
\* scaled-down batch size; every formula below is stated in terms of
\* CALL_RATE, never of its value.
CALL_RATE == 2

\* results_count ranges over 0..MaxResults
MaxResults == 47

\* longest profiles_list handed to s_handler when it is explored on its own
MaxProfiles == 5

\* failed listing fetches explored in one p_handler call (the code has no cap)
MaxPFail == 2

\* failed wave attempts explored in one s_handler call (the code has no cap)
MaxSFail == 1

\* failed fetches (listing or wave) explored in one whole run of main
MaxRunFail == 1

\* longest raw reviews and rating text handed to BusinessProfile
MaxTextLen == 3

\* longest list of records handed to save_to_sql_ when it is explored on its own
MaxRecords == 3

\* calls of search_subject_and_location_input in one process
MaxRuns == 2

\* longest profiles_list left by a call after which another call is explored
MaxCarried == 1

(***************************************************************************)
(* Data.                                                                   *)
(***************************************************************************)
ProfileIds == {"a", "b", "c"}

\* A listing entry's jsdata attribute, as the list jsdata.split(";").
Blob(id) == <<"x", id>>

\* A jsdata attribute without any ";": split(";") has one element.
BadBlob == <<"x">>

\* Bodies of a listing page: the sequence of the jsdata blobs of its
\* div[jscontroller="XHXkqb"] entries.
ListingBodies ==
    { <<>>, <<Blob("a")>>, <<Blob("a"), Blob("b")>>, <<Blob("c"), BadBlob>> }

\* What session.get gives back when it does not raise: status 200 with any
\* body, or a non-success status (429) with or without entries in its page.
ListingResponses ==
    [status : {200}, body : ListingBodies] \cup [status : {429}, body : {<<>>, <<Blob("b")>>}]

\* The structural markers get_business_data looks up in a detail page.
Markers == {"business", "website", "phone_number", "services", "address", "rating", "reviews"}

\* The text of an element of a detail page is the sequence of its characters.
\* The label Google puts in front of the list of services.
ServicesLabel == <<"S", "e", "r", "v", "i", "c", "e", "s", ":", " ">>

\* The delimiter save_to_sql_ splits the services on.
ServicesDelimiter == <<",", " ">>

\* A detail page: the set of markers that have a match, and the texts of the
\* services, reviews and rating elements.
DetailPage(markers, services, reviews, rating) ==
    [markers |-> markers, services |-> services, reviews |-> reviews, rating |-> rating]

DefaultServices == ServicesLabel \o <<"P">> \o ServicesDelimiter \o <<"D">>

DefaultReviews == <<"1", "2">>

DefaultRating == <<"4", ".", "5">>

\* A placeholder for the page of a task that has not returned.
NoPage == DetailPage({}, <<>>, <<>>, <<>>)

\* Bodies of a detail page a fetch may return during a crawl: every marker
\* matches; the website element is missing; nothing matches.
DetailBodies ==
    { DetailPage(Markers, DefaultServices, DefaultReviews, DefaultRating),
      DetailPage(Markers \ {"website"}, DefaultServices, DefaultReviews, DefaultRating),
      DetailPage({}, <<>>, <<>>, <<>>) }

\* Seconds a wave attempt may take until gather() returns or raises.
Durations == {30, 90}

\* What a re-bootstrap during the crawl may report: a result set that has
\* shrunk to nothing, or the largest one without a second page.
RebootResults ==
    { [results_count |-> 0, next_page |-> TRUE],
      [results_count |-> MaxResults, next_page |-> FALSE] }

\* What the bootstrap reports in a whole run: no result; one page and a
\* half, with and without a captured second page; the largest result set
\* with its second page captured.  The pairs without a second page are
\* those of a provider that reports a count on its own: headers.py:163, 179
\* sets results_count only where it sets next_page, and its run() raises
\* AttributeError (MainBootFail) when the Next button does not work.
BootResults ==
    { [results_count |-> 0, next_page |-> FALSE],
      [results_count |-> 25, next_page |-> FALSE],
      [results_count |-> 25, next_page |-> TRUE],
      [results_count |-> MaxResults, next_page |-> TRUE] }

\* Bodies of the pages the bootstrap's browser captured.
BootBodies == { <<Blob("a")>>, <<Blob("c"), BadBlob>> }

NoArgs == [results_count |-> 0, next_page |-> FALSE]

NoResponse == [status |-> 0, body |-> <<>>]

SearchSubject == "dentist"

SearchLocation == "Austin, TX"

(***************************************************************************)
(* Pure helpers.                                                           *)
(***************************************************************************)
\* list(range(0, n, step)) for step > 0
Range0(n, step) ==
    [i \in 1..((n + step - 1) \div step) |-> (i - 1) * step]

\* list.index(x): the first position of x (1-based), 0 when list.index raises
\* ValueError.
IndexOf(list, x) ==
    IF \E i \in 1..Len(list) : list[i] = x
    THEN CHOOSE i \in 1..Len(list) : list[i] = x /\ \A j \in 1..(i - 1) : list[j] # x
    ELSE 0

\* list[k:] for a 0-based k <= len(list)
SliceFrom(list, k) == SubSeq(list, k + 1, Len(list))

RECURSIVE Flatten(_)
Flatten(lists) ==
    IF lists = <<>> THEN <<>> ELSE Head(lists) \o Flatten(Tail(lists))

\* Mutant of FullOffsets: the range includes its stop value.
FullOffsets_Inclusive(count) == Range0(count + 1, RESULTS_PER_PAGE)

\* pages_available = list(range(0, results_count, RESULTS_PER_PAGE))
FullOffsets(count) == Range0(count, RESULTS_PER_PAGE)

\* pages_available.index(2 * RESULTS_PER_PAGE) raises ValueError
OffsetsRaise(np, count) ==
    np /\ IndexOf(FullOffsets(count), 2 * RESULTS_PER_PAGE) = 0

\* Mutant of PagesAvailable: the offsets from the largest down.
PagesAvailable_Descending(np, count) ==
    [i \in 1..Len(FullOffsets(count)) |->
        FullOffsets(count)[Len(FullOffsets(count)) + 1 - i]]

\* pages_available as the for loop of p_handler sees it
PagesAvailable(np, count) ==
    IF np
    THEN SliceFrom(FullOffsets(count), IndexOf(FullOffsets(count), 2 * RESULTS_PER_PAGE) - 1)
    ELSE FullOffsets(count)

\* profile.attributes["jsdata"].split(";")[1] raises IndexError for some entry
ParseRaises(body) == \E i \in 1..Len(body) : Len(body[i]) < 2

\* [profile.attributes["jsdata"].split(";")[1] for profile in ...]
ParsedProfiles(body) == [i \in 1..Len(body) |-> body[i][2]]

(***************************************************************************)
(* Python's string functions, on texts (sequences of characters).          *)
(***************************************************************************)
CharsOf(text) == {text[i] : i \in 1..Len(text)}

\* str.strip(chars): every leading and every trailing character that is in
\* the set chars is removed.
Strip(text, chars) ==
    IF \A i \in 1..Len(text) : text[i] \in chars
    THEN <<>>
    ELSE LET first == CHOOSE i \in 1..Len(text) :
                        text[i] \notin chars /\ \A j \in 1..(i - 1) : text[j] \in chars
             last  == CHOOSE i \in 1..Len(text) :
                        text[i] \notin chars /\ \A j \in (i + 1)..Len(text) : text[j] \in chars
         IN  SubSeq(text, first, last)

\* text[i:i+len(part)] == part
OccursAt(text, part, i) ==
    /\ i + Len(part) - 1 <= Len(text)
    /\ SubSeq(text, i, i + Len(part) - 1) = part

\* part in text
Contains(text, part) == \E i \in 1..Len(text) : OccursAt(text, part, i)

\* text.split(delimiter) for a non-empty delimiter
RECURSIVE Split(_, _)
Split(text, delimiter) ==
    IF ~Contains(text, delimiter)
    THEN <<text>>
    ELSE LET i == CHOOSE k \in 1..Len(text) :
                    OccursAt(text, delimiter, k)
                    /\ \A j \in 1..(k - 1) : ~OccursAt(text, delimiter, j)
         IN  <<SubSeq(text, 1, i - 1)>>
               \o Split(SubSeq(text, i + Len(delimiter), Len(text)), delimiter)

DigitChars == <<"0", "1", "2", "3", "4", "5", "6", "7", "8", "9">>

IsDigit(c) == c \in CharsOf(DigitChars)

\* int(text) for a text of decimal digits
RECURSIVE DigitsValue(_)
DigitsValue(text) ==
    IF text = <<>>
    THEN 0
    ELSE DigitsValue(SubSeq(text, 1, Len(text) - 1)) * 10
           + (IndexOf(DigitChars, text[Len(text)]) - 1)

RECURSIVE Pow10(_)
Pow10(k) == IF k = 0 THEN 1 ELSE 10 * Pow10(k - 1)

\* re.search(r"\d+", text)[0]: the leftmost digit and the digits that follow
\* it without a gap; <<>> when re.search returns None.
FirstDigitRun(text) ==
    IF \A i \in 1..Len(text) : ~IsDigit(text[i])
    THEN <<>>
    ELSE LET first == CHOOSE i \in 1..Len(text) :
                        IsDigit(text[i]) /\ \A j \in 1..(i - 1) : ~IsDigit(text[j])
             last  == CHOOSE i \in first..Len(text) :
                        /\ \A j \in first..i : IsDigit(text[j])
                        /\ (i < Len(text) => ~IsDigit(text[i + 1]))
         IN  SubSeq(text, first, last)

\* The values a field of a BusinessProfile holds: None, a str, an int, or a
\* float (num / den; den = 0 is nan).
NoneValue == [kind |-> "None", str |-> <<>>, num |-> 0, den |-> 1]

StrValue(text) == [kind |-> "str", str |-> text, num |-> 0, den |-> 1]

IntValue(n) == [kind |-> "int", str |-> <<>>, num |-> n, den |-> 1]

FloatValue(num, den) == [kind |-> "float", str |-> <<>>, num |-> num, den |-> den]

\* float(text): surrounding whitespace is ignored; an optional sign; then
\* digits with at most one point and at least one digit, or "nan".  (The
\* exponent, "inf" and "_" forms need characters the texts below do not have.)
FloatBody(text) ==
    LET t == Strip(text, {" "})
    IN  IF t # <<>> /\ t[1] \in {"-", "+"} THEN Tail(t) ELSE t

FloatIsNegative(text) ==
    LET t == Strip(text, {" "}) IN t # <<>> /\ t[1] = "-"

IsPointNumeral(body) ==
    /\ \A i \in 1..Len(body) : IsDigit(body[i]) \/ body[i] = "."
    /\ Cardinality({i \in 1..Len(body) : body[i] = "."}) <= 1
    /\ \E i \in 1..Len(body) : IsDigit(body[i])

\* float(text) raises ValueError
FloatRaises(text) ==
    ~(IsPointNumeral(FloatBody(text)) \/ FloatBody(text) = <<"n", "a", "n">>)

\* float(text) when it does not raise
FloatOf(text) ==
    LET body == FloatBody(text)
        digits == SelectSeq(body, IsDigit)
        point == IndexOf(body, ".")
        places == IF point = 0 THEN 0 ELSE Len(body) - point
        sign == IF FloatIsNegative(text) THEN -1 ELSE 1
    IN  IF body = <<"n", "a", "n">>
        THEN FloatValue(0, 0)
        ELSE FloatValue(sign * DigitsValue(digits), Pow10(places))

(***************************************************************************)
(* business_profile_DC.py: BusinessProfile                                 *)
(***************************************************************************)
\* lines 54-58: clean_service; "if self.services" is false for None and "".
\* str.strip("Services: ") takes its argument as a set of characters.
clean_service(services) ==
    IF services # <<>> THEN Strip(services, CharsOf(ServicesLabel)) ELSE services

\* lines 60-68: clean_reviews; "if self.reviews" is false for "", which
\* stays in the field.
clean_reviews(reviews) ==
    IF reviews # <<>>
    THEN IF FirstDigitRun(reviews) # <<>>
         THEN IntValue(DigitsValue(FirstDigitRun(reviews)))
         ELSE NoneValue
    ELSE StrValue(reviews)

\* lines 70-79: clean_rating; "if self.rating" is false for "", which stays
\* in the field.
clean_rating(rating) ==
    IF rating # <<>>
    THEN IF FloatRaises(rating) THEN NoneValue ELSE FloatOf(rating)
    ELSE StrValue(rating)


(***************************************************************************)
(* State.                                                                  *)
(***************************************************************************)
VARIABLES
    pc,               \* position of the control thread
    err,              \* the exception that was not caught: [type, by], or NoError
    boots,            \* calls of Get_Headers_and_URL().run() that returned
    results_count,    \* p_handler's results_count (rebound at line 129)
    next_page,        \* p_handler's next_page (rebound at line 129)
    pages_contents,   \* pages_contents_list of main (listing bodies)
    pages_available,  \* p_handler's offset list
    page_i,           \* position of the for loop in pages_available
    url,              \* p_handler's url: [ctx, lci]
    session,          \* p_handler's session: [open, headers]
    text_response,    \* p_handler's text_response
    profiles_list,    \* Primary_Stage_Subject_input.profiles_list
    p_fails,          \* failed listing fetches so far
    p_log,            \* history: what p_handler did, in order
    p_args,           \* history: the results_count and next_page p_handler was called with
    now,              \* time(), in seconds
    s_profiles,       \* s_handler's argument profiles_list
    str_interned,     \* whether equal identifier strings are one object
    profiles_arrays,  \* s_handler's profiles_arrays
    wave_i,           \* position of the for loop in profiles_arrays
    start,            \* s_handler's start
    co_routines,      \* tasks of the current attempt: [url, state, body]
    stale,            \* tasks of earlier attempts that have not finished
    responses_list,   \* s_handler's responses_list
    business_info_list, \* Secondary_Stage.business_info_list
    async_session,    \* s_handler's async_session: [id, open, ua]
    SECONDARY_STAGE_HEADERS, \* the module-level dict: [ua], the rest never changes
    s_fails,          \* failed wave attempts so far
    s_log,            \* history: the wave attempts, in order
    sink,             \* calls of Storage.save_to_sql_
    table,            \* rows of the table businesses
    parsed_pages,     \* history: the listing pages parsed into profiles_list: [off, n]
    fail_cap,         \* failed fetches explored in this run (the code has no cap)
    log_order,        \* whether this run records that tasks finish out of order
    reordered         \* history: a task of the attempt finished before an earlier one

p_vars == <<results_count, next_page, pages_contents, pages_available, page_i, url,
            session, text_response, profiles_list, p_fails, p_log, p_args, parsed_pages>>

s_vars == <<s_profiles, str_interned, profiles_arrays, wave_i, start, co_routines, stale,
            responses_list, business_info_list, async_session, s_fails, s_log,
            SECONDARY_STAGE_HEADERS>>

vars == <<pc, err, boots, now, sink, table, fail_cap, log_order, reordered, p_vars, s_vars>>

NoError == [type |-> "none", by |-> "none"]

\* An exception of the given type leaves the given function uncaught (and
\* then main, which catches nothing).
Raised(type, by) == [type |-> type, by |-> by]

\* An entry of p_log.
PEvent(ev, off, resp) == [ev |-> ev, off |-> off, resp |-> resp, at |-> now]

(***************************************************************************)
(* main.py: search_subject_and_location_input, up to the call of p_handler *)
(***************************************************************************)
\* headers.py:155, 166: the i-th page the browser captured is the listing
\* page at this offset (the first page, then the one behind "Next").
BrowserOffset(i) == (i - 1) * RESULTS_PER_PAGE

\* An entry of parsed_pages: the offset of a listing page and the number of
\* identifiers get_business_profiles took from it.
ParsedPage(off, body) == [off |-> off, n |-> Len(ParsedProfiles(body))]

\* main.py:36, the bootstrap provider returns.  headers.py:157-171: the first
\* page is always captured; results_count is set and the second page
\* captured only when the Next button works.
MainBootOk ==
    /\ pc = "main_boot"
    /\ \E r \in BootResults, b1 \in BootBodies, b2 \in BootBodies :
         /\ results_count' = r.results_count
         /\ next_page' = r.next_page
         /\ pages_contents' = IF r.next_page THEN <<b1, b2>> ELSE <<b1>>
    /\ boots' = boots + 1
    /\ pc' = "main_parse"
    /\ UNCHANGED <<fail_cap, log_order, reordered, table, parsed_pages, err, now, sink, pages_available, page_i, url, session, text_response,
                   profiles_list, p_fails, p_log, p_args, s_vars>>

\* main.py:36, the bootstrap provider raises: nothing catches it.
MainBootFail ==
    /\ pc = "main_boot"
    /\ err' = Raised("BootstrapError", "main")
    /\ pc' = "raised"
    /\ UNCHANGED <<fail_cap, log_order, reordered, table, boots, now, sink, p_vars, s_vars>>

\* main.py:39-43: construct the primary stage and parse the bootstrap's pages.
MainParse ==
    /\ pc = "main_parse"
    /\ IF \E i \in 1..Len(pages_contents) : ParseRaises(pages_contents[i])
       THEN /\ err' = Raised("IndexError", "main")
            /\ pc' = "raised"
            /\ profiles_list' =
                 IF ParseRaises(pages_contents[1])
                 THEN profiles_list
                 ELSE profiles_list \o ParsedProfiles(pages_contents[1])
            /\ parsed_pages' =
                 IF ParseRaises(pages_contents[1])
                 THEN parsed_pages
                 ELSE Append(parsed_pages, ParsedPage(BrowserOffset(1), pages_contents[1]))
       ELSE /\ profiles_list' =
                 profiles_list \o Flatten([i \in 1..Len(pages_contents) |->
                                              ParsedProfiles(pages_contents[i])])
            /\ parsed_pages' =
                 parsed_pages \o [i \in 1..Len(pages_contents) |->
                                    ParsedPage(BrowserOffset(i), pages_contents[i])]
            /\ pc' = "p_call"
            /\ err' = err
    /\ UNCHANGED <<fail_cap, log_order, reordered, table, boots, now, sink, results_count, next_page, pages_contents, pages_available,
                   page_i, url, session, text_response, p_fails, p_log, p_args, s_vars>>

(***************************************************************************)
(* primary_crawler.py: Primary_Stage_Subject_input.p_handler               *)
(***************************************************************************)
\* lines 108-116: the session and the offset list.
PStart ==
    /\ pc = "p_call"
    /\ p_args' = [results_count |-> results_count, next_page |-> next_page]
    /\ session' = [open |-> TRUE, headers |-> 1]
    /\ IF OffsetsRaise(next_page, results_count)
       THEN /\ err' = Raised("ValueError", "p_handler")
            /\ pc' = "raised"
            /\ pages_available' = FullOffsets(results_count)
       ELSE /\ pages_available' = PagesAvailable(next_page, results_count)
            /\ pc' = "p_for"
            /\ err' = err
    /\ page_i' = 1
    /\ UNCHANGED <<fail_cap, log_order, reordered, table, parsed_pages, boots, now, sink, results_count, next_page, pages_contents, url,
                   text_response, profiles_list, p_fails, p_log, s_vars>>

\* lines 118-119, 136: the next offset, or return self.profiles_list.
\* url is built from self.search_url, the context p_handler was created with.
PFor ==
    /\ pc = "p_for"
    /\ IF page_i <= Len(pages_available)
       THEN /\ url' = [ctx |-> 1, lci |-> pages_available[page_i]]
            /\ pc' = "p_try"
       ELSE /\ url' = url
            /\ pc' = "p_return"
    /\ UNCHANGED <<fail_cap, log_order, reordered, table, parsed_pages, err, boots, now, sink, results_count, next_page, pages_contents,
                   pages_available, page_i, session, text_response, profiles_list, p_fails,
                   p_log, p_args, s_vars>>

\* lines 123-124, 63-64: session.get returns a response, whatever its status;
\* fetch_search_pages returns its text.
PFetchReturns ==
    /\ pc = "p_try"
    /\ \E resp \in ListingResponses :
         /\ text_response' = resp
         /\ p_log' = Append(p_log, PEvent("get", url.lci, resp))
    /\ pc' = "p_parse"
    /\ UNCHANGED <<fail_cap, log_order, reordered, table, parsed_pages, err, boots, now, sink, results_count, next_page, pages_contents,
                   pages_available, page_i, url, session, profiles_list, p_fails, p_args, s_vars>>

\* Mutant of PFetchRaises: the except block goes straight to the bootstrap,
\* without closing the session and without the cooldown.
PFetchRaises_NoCooldown ==
    /\ pc = "p_try"
    /\ p_fails + s_fails < fail_cap
    /\ p_fails' = p_fails + 1
    /\ p_log' = Append(p_log, PEvent("get_raised", url.lci, NoResponse))
    /\ pc' = "p_boot"
    /\ UNCHANGED <<fail_cap, log_order, reordered, table, parsed_pages, err, boots, now, sink, results_count, next_page, pages_contents,
                   pages_available, page_i, url, session, text_response, profiles_list,
                   p_args, s_vars>>

\* lines 123, 125: session.get raises (a network error).
PFetchRaises ==
    /\ pc = "p_try"
    /\ p_fails + s_fails < fail_cap
    /\ p_fails' = p_fails + 1
    /\ p_log' = Append(p_log, PEvent("get_raised", url.lci, NoResponse))
    /\ pc' = "p_close"
    /\ UNCHANGED <<fail_cap, log_order, reordered, table, parsed_pages, err, boots, now, sink, results_count, next_page, pages_contents,
                   pages_available, page_i, url, session, text_response, profiles_list, p_args, s_vars>>

\* line 127: session.close()
PClose ==
    /\ pc = "p_close"
    /\ session' = [session EXCEPT !.open = FALSE]
    /\ p_log' = Append(p_log, PEvent("close", url.lci, NoResponse))
    /\ pc' = "p_sleep"
    /\ UNCHANGED <<fail_cap, log_order, reordered, table, parsed_pages, err, boots, now, sink, results_count, next_page, pages_contents,
                   pages_available, page_i, url, text_response, profiles_list, p_fails, p_args, s_vars>>

\* line 128: sleep(61)
PSleep ==
    /\ pc = "p_sleep"
    /\ now' = now + RATE_WINDOW
    /\ p_log' = Append(p_log, PEvent("sleep", url.lci, NoResponse))
    /\ pc' = "p_boot"
    /\ UNCHANGED <<fail_cap, log_order, reordered, table, parsed_pages, err, boots, sink, results_count, next_page, pages_contents,
                   pages_available, page_i, url, session, text_response, profiles_list,
                   p_fails, p_args, s_vars>>

\* Mutant of PBootOk: the offsets are computed again from what the
\* bootstrap reports.
PBootOk_RecomputesOffsets ==
    /\ pc = "p_boot"
    /\ boots' = boots + 1
    /\ \E r \in RebootResults :
         /\ results_count' = r.results_count
         /\ next_page' = r.next_page
         /\ pages_available' = IF OffsetsRaise(r.next_page, r.results_count)
                               THEN <<>>
                               ELSE PagesAvailable(r.next_page, r.results_count)
    /\ p_log' = Append(p_log, PEvent("boot", url.lci, NoResponse))
    /\ pc' = "p_session"
    /\ UNCHANGED <<fail_cap, log_order, reordered, table, parsed_pages, err, now, sink, pages_contents, page_i, url, session,
                   text_response, profiles_list, p_fails, p_args, s_vars>>

\* line 129: the bootstrap provider returns; results_count and next_page are
\* rebound, search_url and search_headers are new locals.
PBootOk ==
    /\ pc = "p_boot"
    /\ boots' = boots + 1
    /\ \E r \in RebootResults :
         /\ results_count' = r.results_count
         /\ next_page' = r.next_page
    /\ p_log' = Append(p_log, PEvent("boot", url.lci, NoResponse))
    /\ pc' = "p_session"
    /\ UNCHANGED <<fail_cap, log_order, reordered, table, parsed_pages, err, now, sink, pages_contents, pages_available, page_i, url, session,
                   text_response, profiles_list, p_fails, p_args, s_vars>>

\* Mutant of PBootFail: the failed bootstrap is swallowed and p_handler goes
\* on with a new session.
PBootFail_Swallowed ==
    /\ pc = "p_boot"
    /\ err' = Raised("BootstrapError", "p_handler")
    /\ pc' = "p_session"
    /\ UNCHANGED <<fail_cap, log_order, reordered, table, boots, now, sink, p_vars, s_vars>>

\* line 129: the bootstrap provider raises inside the except block.
PBootFail ==
    /\ pc = "p_boot"
    /\ err' = Raised("BootstrapError", "p_handler")
    /\ pc' = "raised"
    /\ UNCHANGED <<fail_cap, log_order, reordered, table, boots, now, sink, p_vars, s_vars>>

\* lines 130-131: a new session with the new search_headers.
PSession ==
    /\ pc = "p_session"
    /\ session' = [open |-> TRUE, headers |-> boots]
    /\ p_log' = Append(p_log, PEvent("session", url.lci, NoResponse))
    /\ pc' = "p_try"
    /\ UNCHANGED <<fail_cap, log_order, reordered, table, parsed_pages, err, boots, now, sink, results_count, next_page, pages_contents,
                   pages_available, page_i, url, text_response, profiles_list, p_fails, p_args, s_vars>>

\* line 134, 45-51: get_business_profiles(text_response), outside the try.
PParse ==
    /\ pc = "p_parse"
    /\ IF ParseRaises(text_response.body)
       THEN /\ err' = Raised("IndexError", "p_handler")
            /\ pc' = "raised"
            /\ UNCHANGED <<profiles_list, page_i, p_log, parsed_pages>>
       ELSE /\ profiles_list' = profiles_list \o ParsedProfiles(text_response.body)
            /\ p_log' = Append(p_log, PEvent("append", url.lci, text_response))
            /\ parsed_pages' = Append(parsed_pages, ParsedPage(url.lci, text_response.body))
            /\ page_i' = page_i + 1
            /\ pc' = "p_for"
            /\ err' = err
    /\ UNCHANGED <<fail_cap, log_order, reordered, table, boots, now, sink, results_count, next_page, pages_contents,
                   pages_available, url, session, text_response, p_fails, p_args, s_vars>>

PNext ==
    \/ PStart \/ PFor \/ PFetchReturns \/ PFetchRaises \/ PClose \/ PSleep
    \/ PBootOk \/ PBootFail \/ PSession \/ PParse


(***************************************************************************)
(* secondary_crawler.py: Secondary_Stage                                   *)
(***************************************************************************)
\* lines 24-33: SECONDARY_STAGE_HEADERS as the import leaves it; its
\* "User-Agent" is "" (0), the other entries never change.
ImportedHeaders == [ua |-> 0]

\* lines 127-128, 155-156: headers_ = SECONDARY_STAGE_HEADERS binds the
\* module's dict itself, and headers_["User-Agent"] = self.ua.random writes
\* into it.  A value of ua is the number of the draw of self.ua.random.
WithUserAgent(headers_) == [headers_ EXCEPT !.ua = @ + 1]

\* "profile is profiles_list[-1]" at position i: the last element itself, or
\* an equal string that is the same object.
IsLastObject(list, i, interned) ==
    i = Len(list) \/ (interned /\ list[i] = list[Len(list)])

\* lines 85-89: the loop of create_profiles_array from position i on, with
\* the batches closed so far and the open sub_list.
RECURSIVE SplitFrom(_, _, _, _, _)
SplitFrom(list, i, arrays, sub_list, interned) ==
    IF i > Len(list)
    THEN arrays
    ELSE LET sub == Append(sub_list, list[i])
         IN  IF IndexOf(list, list[i]) % CALL_RATE = 0 \/ IsLastObject(list, i, interned)
             THEN SplitFrom(list, i + 1, Append(arrays, sub), <<>>, interned)
             ELSE SplitFrom(list, i + 1, arrays, sub, interned)

\* lines 78-90: create_profiles_array.  IndexOf is 1-based, so
\* (profiles_list.index(profile) + 1) % CALL_RATE is IndexOf(..) % CALL_RATE.
create_profiles_array(list, interned) ==
    IF CALL_RATE >= Len(list)
    THEN <<list>>
    ELSE SplitFrom(list, 1, <<>>, <<>>, interned)

\* lines 99-114: a marker without a match makes css_first return None, and
\* None.text() raises AttributeError.
ExtractRaises(body) == body.markers # Markers

\* lines 102-114: the record appended for a (source_code, profile) pair:
\* asdict(BusinessProfile(..)) after __post_init__ (business_profile_DC.py:
\* 48-52).  website, phone_number and address are copied as they are and
\* left out here.
BusinessRecord(profile, source) ==
    [profile  |-> profile,
     business |-> "name",
     services |-> clean_service(source.services),
     reviews  |-> clean_reviews(source.reviews),
     rating   |-> clean_rating(source.rating)]

\* the first response of responses_list get_business_data raises on, 0 if none
FirstBadResponse(responses) ==
    IF \E i \in 1..Len(responses) : ExtractRaises(responses[i].text)
    THEN CHOOSE i \in 1..Len(responses) :
           /\ ExtractRaises(responses[i].text)
           /\ \A j \in 1..(i - 1) : ~ExtractRaises(responses[j].text)
    ELSE 0

\* Mutant of RemainingWindow: the window is measured from time 0, not from
\* the start of the attempt.
RemainingWindow_FromZero(t, started) == RATE_WINDOW - t

\* lines 149, 165: 61 - (time() - start)
RemainingWindow(t, started) == RATE_WINDOW - (t - started)

\* lines 148-151, 164-167: sleep(d) inside try/except: a negative d raises
\* ValueError, which is swallowed; otherwise d seconds pass.
AfterSleep(t, d) == IF d < 0 THEN t ELSE t + d

Pending(tasks) == {i \in 1..Len(tasks) : tasks[i].state = "pending"}

\* An entry of s_log.
SEvent(ev, urls) ==
    [ev |-> ev, wave |-> wave_i, at |-> now, urls |-> urls,
     session |-> async_session.id, ua |-> async_session.ua,
     info |-> business_info_list,
     done |-> Cardinality({i \in 1..Len(co_routines) : co_routines[i].state = "done"})]

\* main.py:46-50: p_handler has returned; its frame is gone, its list is
\* handed to s_handler.
MainCallS ==
    /\ pc = "p_return"
    /\ s_profiles' = profiles_list
    /\ pc' = "s_call"
    /\ results_count' = 0
    /\ next_page' = FALSE
    /\ pages_available' = <<>>
    /\ page_i' = 1
    /\ url' = [ctx |-> 0, lci |-> 0]
    /\ text_response' = NoResponse
    /\ p_log' = <<>>
    /\ p_args' = NoArgs
    /\ UNCHANGED <<fail_cap, log_order, reordered, SECONDARY_STAGE_HEADERS, table, parsed_pages, err, boots, now, sink, pages_contents, session, profiles_list, p_fails,
                   str_interned, profiles_arrays, wave_i, start, co_routines, stale,
                   responses_list, business_info_list, async_session, s_fails, s_log>>

\* lines 126-132: the session, its headers and the batches.  line 129 hands
\* the dict to the session, which keeps the User-Agent it has then.
SStart ==
    /\ pc = "s_call"
    /\ SECONDARY_STAGE_HEADERS' = WithUserAgent(SECONDARY_STAGE_HEADERS)
    /\ async_session' = [id |-> 1, open |-> TRUE,
                         ua |-> WithUserAgent(SECONDARY_STAGE_HEADERS).ua]
    /\ profiles_arrays' = create_profiles_array(s_profiles, str_interned)
    /\ wave_i' = 1
    /\ pc' = "s_for"
    /\ UNCHANGED <<fail_cap, log_order, reordered, table, err, boots, now, sink, p_vars, s_profiles, str_interned, start,
                   co_routines, stale, responses_list, business_info_list, s_fails, s_log>>

\* lines 134, 170: the next batch, or return self.business_info_list.
SFor ==
    /\ pc = "s_for"
    /\ pc' = IF wave_i <= Len(profiles_arrays) THEN "s_try" ELSE "s_return"
    /\ UNCHANGED <<fail_cap, log_order, reordered, table, err, boots, now, sink, p_vars, s_vars>>

\* lines 137-141: start = time(), one task per profile of the batch, and
\* gather() starts waiting.
SIssue ==
    /\ pc = "s_try"
    /\ start' = now
    /\ co_routines' = [i \in 1..Len(profiles_arrays[wave_i]) |->
                         [url |-> profiles_arrays[wave_i][i], state |-> "pending", text |-> NoPage]]
    /\ s_log' = Append(s_log, SEvent("issue", profiles_arrays[wave_i]))
    /\ pc' = "s_gather"
    /\ reordered' = FALSE
    /\ UNCHANGED <<fail_cap, log_order, SECONDARY_STAGE_HEADERS, table, err, boots, now, sink, p_vars, s_profiles, str_interned, profiles_arrays,
                   wave_i, stale, responses_list, business_info_list, async_session, s_fails>>

\* lines 64-67: one task's fetch returns status 200; any pending task may
\* be the next to finish, also one behind a task that is still pending.
STaskReturns ==
    /\ pc = "s_gather"
    /\ \E i \in Pending(co_routines), body \in DetailBodies :
         /\ co_routines' = [co_routines EXCEPT ![i] = [@ EXCEPT !.state = "done", !.text = body]]
         /\ reordered' = IF log_order
                         THEN reordered \/ (\E j \in Pending(co_routines) : j < i)
                         ELSE reordered
    /\ UNCHANGED <<fail_cap, log_order, SECONDARY_STAGE_HEADERS, table, pc, err, boots, now, sink, p_vars, s_profiles, str_interned,
                   profiles_arrays, wave_i, start, stale, responses_list, business_info_list,
                   async_session, s_fails, s_log>>

\* Mutant of STaskRaises: the results of the tasks that had returned are
\* extracted and kept when the attempt fails.
STaskRaises_KeepsPartial ==
    /\ pc = "s_gather"
    /\ p_fails + s_fails < fail_cap
    /\ \E i \in Pending(co_routines), d \in Durations :
         /\ stale' = stale + Cardinality(Pending(co_routines) \ {i})
         /\ now' = now + d
         /\ s_log' = Append(s_log, SEvent("fail", <<co_routines[i].url>>))
    /\ business_info_list' =
         business_info_list \o
           LET done == SelectSeq(co_routines, LAMBDA t : t.state = "done")
           IN  [i \in 1..Len(done) |-> BusinessRecord(done[i].url, done[i].text)]
    /\ co_routines' = <<>>
    /\ s_fails' = s_fails + 1
    /\ pc' = "s_close"
    /\ reordered' = FALSE
    /\ UNCHANGED <<fail_cap, log_order, SECONDARY_STAGE_HEADERS, table, err, boots, sink, p_vars, s_profiles, str_interned,
                   profiles_arrays, wave_i, start, responses_list, async_session>>

\* lines 64-66, 141, 143: one task raises (session.get raises, or the status
\* is not 200); gather() raises at once in s_handler and leaves the other
\* tasks of the attempt running.
STaskRaises ==
    /\ pc = "s_gather"
    /\ p_fails + s_fails < fail_cap
    /\ \E i \in Pending(co_routines), d \in Durations :
         /\ stale' = stale + Cardinality(Pending(co_routines) \ {i})
         /\ now' = now + d
         /\ s_log' = Append(s_log, SEvent("fail", <<co_routines[i].url>>))
    /\ co_routines' = <<>>
    /\ s_fails' = s_fails + 1
    /\ pc' = "s_close"
    /\ reordered' = FALSE
    /\ UNCHANGED <<fail_cap, log_order, SECONDARY_STAGE_HEADERS, table, err, boots, sink, p_vars, s_profiles, str_interned, profiles_arrays,
                   wave_i, start, responses_list, business_info_list, async_session>>

\* a task of an earlier attempt finishes while the event loop runs (s_handler
\* waits in gather()).
StaleTaskEnds ==
    /\ pc = "s_gather"
    /\ stale > 0
    /\ stale' = stale - 1
    /\ UNCHANGED <<fail_cap, log_order, reordered, SECONDARY_STAGE_HEADERS, table, pc, err, boots, now, sink, p_vars, s_profiles, str_interned,
                   profiles_arrays, wave_i, start, co_routines, responses_list,
                   business_info_list, async_session, s_fails, s_log>>

\* Mutant of SGatherReturns: gather() returns the results of the batch
\* last task first.
SGatherReturns_LastFirst ==
    /\ pc = "s_gather"
    /\ Pending(co_routines) = {}
    /\ responses_list' = [i \in 1..Len(co_routines) |->
                            [text |-> co_routines[Len(co_routines) + 1 - i].text,
                             url |-> co_routines[Len(co_routines) + 1 - i].url]]
    /\ \E d \in Durations : now' = now + d
    /\ co_routines' = <<>>
    /\ pc' = "s_extract"
    /\ UNCHANGED <<fail_cap, log_order, reordered, SECONDARY_STAGE_HEADERS, table, err, boots, sink, p_vars, s_profiles, str_interned, profiles_arrays,
                   wave_i, start, stale, business_info_list, async_session, s_fails, s_log>>

\* lines 141-142: every task has returned; gather() returns their results in
\* the order of co_routines.
SGatherReturns ==
    /\ pc = "s_gather"
    /\ Pending(co_routines) = {}
    /\ responses_list' = [i \in 1..Len(co_routines) |->
                            [text |-> co_routines[i].text, url |-> co_routines[i].url]]
    /\ \E d \in Durations : now' = now + d
    /\ co_routines' = <<>>
    /\ pc' = "s_extract"
    /\ UNCHANGED <<fail_cap, log_order, reordered, SECONDARY_STAGE_HEADERS, table, err, boots, sink, p_vars, s_profiles, str_interned, profiles_arrays,
                   wave_i, start, stale, business_info_list, async_session, s_fails, s_log>>

\* line 145: await async_session.close(); tasks left over from the failed
\* attempt may or may not finish while s_handler waits here.
SClose ==
    /\ pc = "s_close"
    /\ async_session' = [async_session EXCEPT !.open = FALSE]
    /\ \E k \in 0..stale : stale' = k
    /\ pc' = "s_sleep"
    /\ UNCHANGED <<fail_cap, log_order, reordered, SECONDARY_STAGE_HEADERS, table, err, boots, now, sink, p_vars, s_profiles, str_interned, profiles_arrays,
                   wave_i, start, co_routines, responses_list, business_info_list, s_fails,
                   s_log>>

\* lines 148-151: the blocking sleep for the rest of the window.
SSleep ==
    /\ pc = "s_sleep"
    /\ now' = AfterSleep(now, RemainingWindow(now, start))
    /\ pc' = "s_session"
    /\ UNCHANGED <<fail_cap, log_order, reordered, table, err, boots, sink, p_vars, s_vars>>

\* Mutant of SSession: the closed session is opened again and used for
\* the retry.
SSession_ReusesSession ==
    /\ pc = "s_session"
    /\ async_session' = [async_session EXCEPT !.open = TRUE]
    /\ pc' = "s_try"
    /\ UNCHANGED <<fail_cap, log_order, reordered, table, err, boots, now, sink, p_vars, s_profiles, str_interned, profiles_arrays,
                   wave_i, start, co_routines, stale, responses_list, business_info_list,
                   s_fails, s_log, SECONDARY_STAGE_HEADERS>>

\* lines 154-157: a new session with a new User-Agent.
SSession ==
    /\ pc = "s_session"
    /\ SECONDARY_STAGE_HEADERS' = WithUserAgent(SECONDARY_STAGE_HEADERS)
    /\ async_session' = [id |-> async_session.id + 1, open |-> TRUE,
                         ua |-> WithUserAgent(SECONDARY_STAGE_HEADERS).ua]
    /\ pc' = "s_try"
    /\ UNCHANGED <<fail_cap, log_order, reordered, table, err, boots, now, sink, p_vars, s_profiles, str_interned, profiles_arrays,
                   wave_i, start, co_routines, stale, responses_list, business_info_list,
                   s_fails, s_log>>

\* line 160, 98-115: get_business_data(responses_list), outside the try.
SExtract ==
    /\ pc = "s_extract"
    /\ LET bad == FirstBadResponse(responses_list)
           n == IF bad = 0 THEN Len(responses_list) ELSE bad - 1
       IN  /\ business_info_list' =
                business_info_list \o [i \in 1..n |-> BusinessRecord(responses_list[i].url,
                                                                     responses_list[i].text)]
           /\ IF bad = 0
              THEN pc' = "s_pace" /\ err' = err
              ELSE pc' = "raised" /\ err' = Raised("AttributeError", "s_handler")
    /\ s_log' = Append(s_log, SEvent("ok", profiles_arrays[wave_i]))
    /\ UNCHANGED <<fail_cap, log_order, reordered, SECONDARY_STAGE_HEADERS, table, boots, now, sink, p_vars, s_profiles, str_interned, profiles_arrays,
                   wave_i, start, co_routines, stale, responses_list, async_session, s_fails>>

\* Mutant of SPace: the for loop leaves out the batch after this one.
SPace_SkipsWave ==
    /\ pc = "s_pace"
    /\ now' = IF wave_i # Len(profiles_arrays)
              THEN AfterSleep(now, RemainingWindow(now, start))
              ELSE now
    /\ wave_i' = wave_i + 2
    /\ pc' = "s_for"
    /\ UNCHANGED <<fail_cap, log_order, reordered, SECONDARY_STAGE_HEADERS, table, err, boots, sink, p_vars, s_profiles, str_interned, profiles_arrays,
                   start, co_routines, stale, responses_list, business_info_list,
                   async_session, s_fails, s_log>>

\* lines 163-167: wait for the rest of the window unless this was the last
\* batch, then go on with the for loop.
SPace ==
    /\ pc = "s_pace"
    /\ now' = IF wave_i # Len(profiles_arrays)
              THEN AfterSleep(now, RemainingWindow(now, start))
              ELSE now
    /\ wave_i' = wave_i + 1
    /\ pc' = "s_for"
    /\ UNCHANGED <<fail_cap, log_order, reordered, SECONDARY_STAGE_HEADERS, table, err, boots, sink, p_vars, s_profiles, str_interned, profiles_arrays,
                   start, co_routines, stale, responses_list, business_info_list,
                   async_session, s_fails, s_log>>

SNext ==
    \/ SStart \/ SFor \/ SIssue \/ STaskReturns \/ STaskRaises \/ StaleTaskEnds
    \/ SGatherReturns \/ SClose \/ SSleep \/ SSession \/ SExtract \/ SPace

(***************************************************************************)
(* storage_solution.py: Storage.save_to_sql_                               *)
(***************************************************************************)
\* Mutant of drop_duplicates: every row is kept.
drop_duplicates_KeepsAll(rows) == rows

\* line 60: df.drop_duplicates(subset="profile") keeps, for every profile,
\* the first row that has it.
RECURSIVE drop_duplicates(_)
drop_duplicates(rows) ==
    IF rows = <<>>
    THEN <<>>
    ELSE LET front == SubSeq(rows, 1, Len(rows) - 1)
             last == rows[Len(rows)]
         IN  IF \E i \in 1..Len(front) : front[i].profile = last.profile
             THEN drop_duplicates(front)
             ELSE Append(drop_duplicates(front), last)

\* line 63: str(x).split(", ") if ", " in str(x) else []
SplitServices(services) ==
    IF Contains(services, ServicesDelimiter) THEN Split(services, ServicesDelimiter) ELSE <<>>

\* lines 61-63: the row written for a record.
StoredRow(record, location, subject) ==
    [profile       |-> record.profile,
     business      |-> record.business,
     services      |-> SplitServices(record.services),
     reviews       |-> record.reviews,
     rating        |-> record.rating,
     business_type |-> subject,
     location      |-> location]

\* lines 59-63: a DataFrame made of no record has no column, and
\* df["services"] raises KeyError before anything is written.
SaveRaises(results_list) == results_list = <<>>

\* lines 59-64: the rows to_sql appends.
SavedRows(results_list, location, subject) ==
    LET df == drop_duplicates(results_list)
    IN  [i \in 1..Len(df) |-> StoredRow(df[i], location, subject)]

\* Mutant of MainSave: the tags are handed over in the order subject,
\* location.
MainSave_TagsSwapped ==
    /\ pc = "s_return"
    /\ sink' = Append(sink, [records |-> business_info_list,
                             location |-> SearchSubject, subject |-> SearchLocation])
    /\ IF SaveRaises(business_info_list)
       THEN /\ err' = Raised("KeyError", "save_to_sql_")
            /\ pc' = "raised"
            /\ table' = table
       ELSE /\ table' = table \o SavedRows(business_info_list, SearchSubject, SearchLocation)
            /\ pc' = "done"
            /\ err' = err
    /\ UNCHANGED <<fail_cap, log_order, reordered, boots, now, p_vars, s_vars>>

\* main.py:53: data_base.save_to_sql_(businesses_, location, subject).
MainSave ==
    /\ pc = "s_return"
    /\ sink' = Append(sink, [records |-> business_info_list,
                             location |-> SearchLocation, subject |-> SearchSubject])
    /\ IF SaveRaises(business_info_list)
       THEN /\ err' = Raised("KeyError", "save_to_sql_")
            /\ pc' = "raised"
            /\ table' = table
       ELSE /\ table' = table \o SavedRows(business_info_list, SearchLocation, SearchSubject)
            /\ pc' = "done"
            /\ err' = err
    /\ UNCHANGED <<fail_cap, log_order, reordered, boots, now, p_vars, s_vars>>

\* main.py:12, 25-50: search_subject_and_location_input is called again in
\* the process in which a call has ended.  Its locals and the instances it
\* constructs are new; what lives in the classes and the modules (the
\* class attributes profiles_list and business_info_list, which no
\* __init__ rebinds, and SECONDARY_STAGE_HEADERS) and the table stay.
MainAgain ==
    /\ pc = "done"
    /\ Len(sink) < MaxRuns
    /\ Len(profiles_list) <= MaxCarried
    /\ pc' = "main_boot"
    /\ boots' = 0
    /\ results_count' = 0
    /\ next_page' = FALSE
    /\ pages_contents' = <<>>
    /\ pages_available' = <<>>
    /\ page_i' = 1
    /\ url' = [ctx |-> 0, lci |-> 0]
    /\ session' = [open |-> FALSE, headers |-> 0]
    /\ text_response' = NoResponse
    /\ p_fails' = 0
    /\ p_log' = <<>>
    /\ p_args' = NoArgs
    /\ s_profiles' = <<>>
    /\ profiles_arrays' = <<>>
    /\ wave_i' = 1
    /\ start' = 0
    /\ co_routines' = <<>>
    /\ stale' = 0
    /\ responses_list' = <<>>
    /\ async_session' = [id |-> 0, open |-> FALSE, ua |-> 0]
    /\ s_fails' = 0
    /\ s_log' = <<>>
    /\ reordered' = FALSE
    /\ UNCHANGED <<fail_cap, log_order, table, err, now, sink, parsed_pages, profiles_list,
                   str_interned, business_info_list, SECONDARY_STAGE_HEADERS>>

(***************************************************************************)
(* Specifications.                                                         *)
(***************************************************************************)
PInit0 ==
    /\ results_count = 0
    /\ next_page = FALSE
    /\ pages_contents = <<>>
    /\ pages_available = <<>>
    /\ page_i = 1
    /\ url = [ctx |-> 0, lci |-> 0]
    /\ session = [open |-> FALSE, headers |-> 0]
    /\ text_response = NoResponse
    /\ profiles_list = <<>>
    /\ p_fails = 0
    /\ p_log = <<>>
    /\ p_args = NoArgs
    /\ parsed_pages = <<>>

SInit0 ==
    /\ s_profiles = <<>>
    /\ profiles_arrays = <<>>
    /\ wave_i = 1
    /\ start = 0
    /\ co_routines = <<>>
    /\ stale = 0
    /\ responses_list = <<>>
    /\ business_info_list = <<>>
    /\ async_session = [id |-> 0, open |-> FALSE, ua |-> 0]
    /\ SECONDARY_STAGE_HEADERS = ImportedHeaders
    /\ s_fails = 0
    /\ s_log = <<>>

\* The whole run: main.py from its first line.
Init ==
    /\ pc = "main_boot"
    /\ err = NoError
    /\ boots = 0
    /\ now = 0
    /\ sink = <<>>
    /\ table = <<>>
    /\ fail_cap = MaxRunFail
    /\ log_order = FALSE
    /\ reordered = FALSE
    /\ PInit0
    /\ SInit0
    /\ str_interned = FALSE

Next == MainBootOk \/ MainBootFail \/ MainParse \/ PNext \/ MainCallS \/ SNext \/ MainSave

Spec == Init /\ [][Next]_vars

\* The whole run where the bootstrap provider never raises and every step
\* that can be taken is taken in the end; a fetch or a wave that is tried
\* again and again succeeds in the end.
NextL ==
    \/ MainBootOk \/ MainParse \/ MainCallS \/ MainSave
    \/ PStart \/ PFor \/ PFetchReturns \/ PFetchRaises \/ PClose \/ PSleep \/ PBootOk
    \/ PSession \/ PParse
    \/ SNext

SpecL ==
    /\ Init
    /\ [][NextL]_vars
    /\ WF_vars(NextL)
    /\ SF_vars(PFetchReturns)
    /\ SF_vars(SGatherReturns)

\* Calls of search_subject_and_location_input one after the other in one
\* process, no fetch failing.
InitR ==
    /\ pc = "main_boot"
    /\ err = NoError
    /\ boots = 0
    /\ now = 0
    /\ sink = <<>>
    /\ table = <<>>
    /\ fail_cap = 0
    /\ log_order = FALSE
    /\ reordered = FALSE
    /\ PInit0
    /\ SInit0
    /\ str_interned = FALSE

NextR ==
    \/ MainBootOk \/ MainParse \/ PStart \/ PFor \/ PFetchReturns \/ PParse \/ MainCallS
    \/ SStart \/ SFor \/ SIssue \/ STaskReturns \/ SGatherReturns \/ SExtract \/ SPace
    \/ MainSave \/ MainAgain

SpecR == InitR /\ [][NextR]_vars

\* p_handler on its own: called with any results_count and next_page.
InitP ==
    /\ pc = "p_call"
    /\ err = NoError
    /\ boots = 1
    /\ now = 0
    /\ sink = <<>>
    /\ table = <<>>
    /\ fail_cap = MaxPFail
    /\ log_order = FALSE
    /\ reordered = FALSE
    /\ results_count \in 0..MaxResults
    /\ next_page \in BOOLEAN
    /\ pages_contents = <<>>
    /\ pages_available = <<>>
    /\ page_i = 1
    /\ url = [ctx |-> 0, lci |-> 0]
    /\ session = [open |-> FALSE, headers |-> 0]
    /\ text_response = NoResponse
    /\ profiles_list = <<>>
    /\ p_fails = 0
    /\ p_log = <<>>
    /\ p_args = NoArgs
    /\ parsed_pages = <<>>
    /\ SInit0
    /\ str_interned = FALSE

SpecP == InitP /\ [][PNext]_vars

SeqsUpTo(S, n) == UNION {[1..k -> S] : k \in 0..n}

\* The identifiers in a fixed order, repeated: position i of every input of
\* s_handler explored below.
IdAt(i) == <<"a", "b", "c">>[((i - 1) % 3) + 1]

\* Inputs of s_handler: lists of every length up to MaxProfiles; from the
\* fourth position on they repeat identifiers.
SInputs == {[i \in 1..k |-> IdAt(i)] : k \in 0..MaxProfiles}

\* s_handler on its own.
InitS ==
    /\ pc = "s_call"
    /\ err = NoError
    /\ boots = 1
    /\ now = 0
    /\ sink = <<>>
    /\ table = <<>>
    /\ fail_cap = MaxSFail
    /\ log_order = FALSE
    /\ reordered = FALSE
    /\ PInit0
    /\ s_profiles \in SInputs
    /\ str_interned = FALSE
    /\ profiles_arrays = <<>>
    /\ wave_i = 1
    /\ start = 0
    /\ co_routines = <<>>
    /\ stale = 0
    /\ responses_list = <<>>
    /\ business_info_list = <<>>
    /\ async_session = [id |-> 0, open |-> FALSE, ua |-> 0]
    /\ SECONDARY_STAGE_HEADERS = ImportedHeaders
    /\ s_fails = 0
    /\ s_log = <<>>

SpecS == InitS /\ [][SNext]_vars

\* s_handler on its own, recording whether tasks finish out of order.
InitO ==
    /\ pc = "s_call"
    /\ err = NoError
    /\ boots = 1
    /\ now = 0
    /\ sink = <<>>
    /\ table = <<>>
    /\ fail_cap = MaxSFail
    /\ log_order = TRUE
    /\ reordered = FALSE
    /\ PInit0
    /\ s_profiles \in SInputs
    /\ str_interned = FALSE
    /\ profiles_arrays = <<>>
    /\ wave_i = 1
    /\ start = 0
    /\ co_routines = <<>>
    /\ stale = 0
    /\ responses_list = <<>>
    /\ business_info_list = <<>>
    /\ async_session = [id |-> 0, open |-> FALSE, ua |-> 0]
    /\ SECONDARY_STAGE_HEADERS = ImportedHeaders
    /\ s_fails = 0
    /\ s_log = <<>>

SpecO == InitO /\ [][SNext]_vars

\* create_profiles_array on its own: any list of identifiers, duplicates
\* included, split by the first lines of s_handler.
InitB ==
    /\ pc = "s_call"
    /\ err = NoError
    /\ boots = 1
    /\ now = 0
    /\ sink = <<>>
    /\ table = <<>>
    /\ fail_cap = MaxSFail
    /\ log_order = FALSE
    /\ reordered = FALSE
    /\ PInit0
    /\ s_profiles \in SeqsUpTo(ProfileIds, MaxProfiles)
    /\ str_interned \in BOOLEAN
    /\ profiles_arrays = <<>>
    /\ wave_i = 1
    /\ start = 0
    /\ co_routines = <<>>
    /\ stale = 0
    /\ responses_list = <<>>
    /\ business_info_list = <<>>
    /\ async_session = [id |-> 0, open |-> FALSE, ua |-> 0]
    /\ SECONDARY_STAGE_HEADERS = ImportedHeaders
    /\ s_fails = 0
    /\ s_log = <<>>

NextB == SStart

SpecB == InitB /\ [][NextB]_vars

\* Names of services: one the label's characters do not touch, one that
\* ends and one that starts with a character of the label.
ServiceNames == { <<"P">>, <<"P", "s">>, <<"e", "P">> }

\* Lists of services as Google prints them: no, one or two names.
ServiceLists ==
    {<<>>} \cup ServiceNames
      \cup {n1 \o ServicesDelimiter \o n2 : n1 \in ServiceNames, n2 \in ServiceNames}

\* Raw services texts: a list with and without the label in front.
ServicesTexts == ServiceLists \cup {ServicesLabel \o l : l \in ServiceLists}

ReviewsChars == {"1", "2", "a"}

RatingChars == {"4", ".", "-", "n", "a"}

ReviewsTexts == SeqsUpTo(ReviewsChars, MaxTextLen)

RatingTexts == SeqsUpTo(RatingChars, MaxTextLen)

\* Detail pages with every marker, one of whose three texts is arbitrary.
CleaningPages ==
    {DetailPage(Markers, t, DefaultReviews, DefaultRating) : t \in ServicesTexts}
      \cup {DetailPage(Markers, DefaultServices, t, DefaultRating) : t \in ReviewsTexts}
      \cup {DetailPage(Markers, DefaultServices, DefaultReviews, t) : t \in RatingTexts}

\* The extractor, the record cleaning and the sink on their own: the one
\* wave of s_handler has fetched one page and get_business_data is next.
InitD ==
    /\ pc = "s_extract"
    /\ err = NoError
    /\ boots = 1
    /\ now = 0
    /\ sink = <<>>
    /\ table = <<>>
    /\ fail_cap = 0
    /\ log_order = FALSE
    /\ reordered = FALSE
    /\ PInit0
    /\ s_profiles = <<"a">>
    /\ str_interned = FALSE
    /\ profiles_arrays = << <<"a">> >>
    /\ wave_i = 1
    /\ start = 0
    /\ co_routines = <<>>
    /\ stale = 0
    /\ responses_list \in {<<[text |-> page, url |-> "a"]>> : page \in CleaningPages}
    /\ business_info_list = <<>>
    /\ async_session = [id |-> 1, open |-> TRUE, ua |-> 1]
    /\ SECONDARY_STAGE_HEADERS = WithUserAgent(ImportedHeaders)
    /\ s_fails = 0
    /\ s_log = <<>>

NextD == SExtract \/ SPace \/ SFor \/ MainSave

SpecD == InitD /\ [][NextD]_vars

BusinessNames == {"name", "other"}

\* Records handed to save_to_sql_: two profiles, each under two business
\* names, so that rows of one profile can be told apart.
StorageRecords ==
    {[BusinessRecord(p, DetailPage(Markers, DefaultServices, DefaultReviews, DefaultRating))
        EXCEPT !.business = b] : p \in {"a", "b"}, b \in BusinessNames}

\* A row an earlier run has written, for profile "a".
OldRow ==
    StoredRow(BusinessRecord("a", DetailPage(Markers, <<>>, <<>>, DefaultRating)),
              "Dallas, TX", "plumber")

\* save_to_sql_ on its own: any list of records, duplicates included, and a
\* table that is empty or holds a row.
InitT ==
    /\ pc = "s_return"
    /\ err = NoError
    /\ boots = 1
    /\ now = 0
    /\ sink = <<>>
    /\ table \in {<<>>, <<OldRow>>}
    /\ fail_cap = 0
    /\ log_order = FALSE
    /\ reordered = FALSE
    /\ PInit0
    /\ s_profiles = <<>>
    /\ str_interned = FALSE
    /\ profiles_arrays = <<>>
    /\ wave_i = 1
    /\ start = 0
    /\ co_routines = <<>>
    /\ stale = 0
    /\ responses_list = <<>>
    /\ business_info_list \in SeqsUpTo(StorageRecords, MaxRecords)
    /\ async_session = [id |-> 1, open |-> TRUE, ua |-> 1]
    /\ SECONDARY_STAGE_HEADERS = WithUserAgent(ImportedHeaders)
    /\ s_fails = 0
    /\ s_log = <<>>

NextT == MainSave

SpecT == InitT /\ [][NextT]_vars


(***************************************************************************)
(* Properties of p_handler (checked under SpecP unless said otherwise).    *)
(***************************************************************************)
IsGet(e) == e.ev \in {"get", "get_raised"}

\* The offsets p_handler asked the service for, retries included.
RequestedOffsets == {p_log[i].off : i \in {j \in 1..Len(p_log) : IsGet(p_log[j])}}

LogOffsets(ev) ==
    LET hits == SelectSeq(p_log, LAMBDA e : e.ev = ev)
    IN  [i \in 1..Len(hits) |-> hits[i].off]

\* The offsets whose fetch returned, in the order of the fetches.
ReturnedOffsets == LogOffsets("get")

\* The multiples of the page size strictly below count.
MultiplesBelow(count) == {k \in 0..(count - 1) : k % RESULTS_PER_PAGE = 0}

\* seq lists the members of the set S of numbers in increasing order.
Ascending(seq, S) ==
    /\ Len(seq) = Cardinality(S)
    /\ \A i \in 1..Len(seq) : seq[i] \in S
    /\ \A i \in 1..(Len(seq) - 1) : seq[i] < seq[i + 1]

\* C1: called with next_page false, p_handler never asks for an offset that
\* is not a multiple of the page size strictly below results_count, and
\* when it returns it has fetched exactly these offsets, each once with
\* success, from 0 upwards.
C1_OffsetsAreMultiplesBelowCount ==
    (pc \in {"p_for", "p_try", "p_parse", "p_close", "p_sleep", "p_boot", "p_session",
             "p_return"} /\ ~p_args.next_page)
        => /\ RequestedOffsets \subseteq MultiplesBelow(p_args.results_count)
           /\ pc = "p_return" =>
                /\ RequestedOffsets = MultiplesBelow(p_args.results_count)
                /\ Ascending(ReturnedOffsets, MultiplesBelow(p_args.results_count))

\* p_handler(False, 47, ..) has returned after fetching 0, 20 and 40, one of
\* them twice because the first try raised.
C1_Witness ==
    /\ pc = "p_return"
    /\ p_args = [results_count |-> 47, next_page |-> FALSE]
    /\ ReturnedOffsets = <<0, 20, 40>>
    /\ p_fails > 0

\* The full offset sequence with its first two elements dropped.
DropTwo(seq) == IF Len(seq) <= 2 THEN <<>> ELSE SubSeq(seq, 3, Len(seq))

\* C2: called with next_page true, p_handler does not raise, and the offsets
\* it has fetched when it returns are the full sequence 0, 20, 40, ..
\* without its first two elements (none when the full sequence has at most
\* two).
C2_SecondPageDropsTwoOffsets ==
    (pc # "p_call" /\ p_args.next_page)
        => /\ err.type # "ValueError"
           /\ pc = "p_return" =>
                ReturnedOffsets = DropTwo(FullOffsets(p_args.results_count))

\* C3: after a listing fetch for offset k has raised, p_handler closes the
\* session, waits the 61 seconds, calls the bootstrap, installs the new
\* session, in this order, and the next fetch it issues is for offset k.
C3_RecoveryOrderAndSameOffset ==
    \A i \in 1..Len(p_log) :
        p_log[i].ev = "get_raised" =>
            LET k == p_log[i].off
                Is(j, ev) == (i + j <= Len(p_log)) => (p_log[i + j].ev = ev /\ p_log[i + j].off = k)
            IN  /\ Is(1, "close")
                /\ Is(2, "sleep")
                /\ Is(3, "boot")
                /\ (i + 3 <= Len(p_log)) => p_log[i + 3].at = p_log[i + 2].at + RATE_WINDOW
                /\ Is(4, "session")
                /\ (i + 5 <= Len(p_log)) => (IsGet(p_log[i + 5]) /\ p_log[i + 5].off = k)
                /\ (i + 1 > Len(p_log)) => pc = "p_close"
                /\ (i + 1 = Len(p_log)) => (pc = "p_sleep" /\ ~session.open)
                /\ (i + 2 = Len(p_log)) => pc \in {"p_boot", "raised"}
                /\ (i + 3 = Len(p_log)) => pc = "p_session"
                /\ (i + 4 = Len(p_log)) => (pc = "p_try" /\ session.open /\ url.lci = k)

\* The fetch for offset 20 raised, the four recovery steps ran, and offset 20
\* was fetched again and returned.
C3_Witness ==
    \E i \in 1..Len(p_log) :
        /\ p_log[i].ev = "get_raised"
        /\ p_log[i].off = 20
        /\ i + 5 <= Len(p_log)
        /\ p_log[i + 5].ev = "get"

\* A listing response that is a fetch failure: a non-success status, or a
\* body whose entries cannot be parsed.
FailedResponse(resp) == resp.status # 200 \/ ParseRaises(resp.body)

\* C4: a listing fetch that raised, or returned a non-success status or a
\* malformed body, appends nothing to the profile list and is followed by a
\* fetch for the same offset.
C4_FailedFetchAppendsNothingAndIsRetried ==
    \A i \in 1..Len(p_log) :
        /\ p_log[i].ev = "append" => ~FailedResponse(p_log[i].resp)
        /\ (p_log[i].ev = "get_raised" \/ (p_log[i].ev = "get" /\ FailedResponse(p_log[i].resp)))
             => \A j \in (i + 1)..Len(p_log) :
                   (IsGet(p_log[j]) /\ \A m \in (i + 1)..(j - 1) : ~IsGet(p_log[m]))
                       => p_log[j].off = p_log[i].off


(***************************************************************************)
(* Properties of the whole run (Spec).                                     *)
(***************************************************************************)
\* The exceptions that parsing a malformed or empty response raises.
TransientTypes == {"IndexError", "AttributeError"}

\* C5: no exception caused by a malformed or empty response leaves p_handler
\* or s_handler.
C5_NoTransientFailureEscapes ==
    err.by \in {"p_handler", "s_handler"} => err.type \notin TransientTypes

\* C6: once the bootstrap provider has failed, at the start of the run or in
\* p_handler's except block, the exception has left p_handler and main: the
\* run has stopped, no detail fetch was issued, no listing or detail fetch
\* and no hand-off to the sink can follow, and the sink was not invoked.
C6_BootstrapFailureAborts ==
    err.type = "BootstrapError"
        => /\ pc = "raised"
           /\ err.by \in {"main", "p_handler"}
           /\ sink = <<>>
           /\ s_log = <<>>
           /\ ~ENABLED (PFetchReturns \/ PFetchRaises \/ SIssue \/ MainSave)

\* The re-bootstrap after a failed listing fetch has failed, with profiles
\* already collected.
C6_Witness ==
    /\ err = Raised("BootstrapError", "p_handler")
    /\ profiles_list # <<>>
    /\ \E i \in 1..Len(p_log) : p_log[i].ev = "sleep"

(***************************************************************************)
(* Properties of create_profiles_array (SpecB) and s_handler (SpecS).      *)
(***************************************************************************)
\* C7: the batches are contiguous and concatenate to the input, none holds
\* more than CALL_RATE identifiers, and all but the last hold exactly
\* CALL_RATE.
C7_BatchesPartitionInput ==
    pc = "s_for"
        => /\ Flatten(profiles_arrays) = s_profiles
           /\ \A i \in 1..Len(profiles_arrays) : Len(profiles_arrays[i]) <= CALL_RATE
           /\ \A i \in 1..(Len(profiles_arrays) - 1) : Len(profiles_arrays[i]) = CALL_RATE

\* C8: a failed wave attempt appends nothing to business_info_list (it is at
\* the failure, and until the retry is issued, what it was when the attempt
\* was issued), and the next attempt is for the same wave and fetches every
\* identifier of its batch.
C8_FailedWaveIsDiscardedAndRetriedWhole ==
    \A j \in 1..Len(s_log) :
        s_log[j].ev = "fail" =>
            /\ j > 1
            /\ s_log[j - 1].ev = "issue"
            /\ s_log[j - 1].wave = s_log[j].wave
            /\ s_log[j].info = s_log[j - 1].info
            /\ (j = Len(s_log)) => business_info_list = s_log[j].info
            /\ (j < Len(s_log)) =>
                 /\ s_log[j + 1].ev = "issue"
                 /\ s_log[j + 1].wave = s_log[j].wave
                 /\ s_log[j + 1].urls = profiles_arrays[s_log[j].wave]
                 /\ s_log[j + 1].info = s_log[j].info

\* An attempt of the second wave failed after one of its fetches had
\* returned, and the retry has been issued: the first wave's records are
\* there.
C8_Witness ==
    \E j \in 1..Len(s_log) :
        /\ s_log[j].ev = "fail"
        /\ s_log[j].wave = 2
        /\ s_log[j].done > 0
        /\ s_log[j].info # <<>>
        /\ j < Len(s_log)
        /\ pc = "s_gather"

\* the attempt issued at j is the one after the attempt issued at i
NextAttempt(i, j) ==
    /\ i < j
    /\ s_log[i].ev = "issue"
    /\ s_log[j].ev = "issue"
    /\ \A m \in (i + 1)..(j - 1) : s_log[m].ev # "issue"

\* C9: an attempt is issued no earlier than 61 seconds after the attempt
\* before it was issued, whether that one failed or succeeded.
C9_AttemptsAreAWindowApart ==
    \A j \in 2..Len(s_log) :
        s_log[j].ev = "issue" =>
            \A i \in 1..(j - 1) :
                NextAttempt(i, j) => s_log[j].at >= s_log[i].at + RATE_WINDOW

\* A retry was issued exactly 61 seconds after an attempt that failed within
\* 30 seconds, and a wave exactly 61 seconds after a wave that succeeded
\* within 30 seconds.
C9_Witness ==
    /\ \E i, j \in 1..Len(s_log) :
         /\ NextAttempt(i, j)
         /\ s_log[j].at = s_log[i].at + RATE_WINDOW
         /\ s_log[i + 1].ev = "fail"
    /\ \E i, j \in 1..Len(s_log) :
         /\ NextAttempt(i, j)
         /\ s_log[j].at = s_log[i].at + RATE_WINDOW
         /\ s_log[i + 1].ev = "ok"

\* C10: the fetches in flight all belong to the current attempt, and there
\* are never more than CALL_RATE of them.
C10_OneAttemptInFlight ==
    /\ Pending(co_routines) # {} => stale = 0
    /\ Cardinality(Pending(co_routines)) + stale <= CALL_RATE

(***************************************************************************)
(* Properties of the records s_handler returns (SpecS).                    *)
(***************************************************************************)
\* How many elements of seq satisfy Test.
CountOf(seq, Test(_)) == Cardinality({i \in 1..Len(seq) : Test(seq[i])})

\* C11: when s_handler returns, business_info_list holds as many records as
\* the input has profile refs, and for every ref as many records carrying
\* it as the input has occurrences of it (none for a ref that is not in the
\* input), whatever wave attempts failed on the way.
C11_OneRecordPerInputRef ==
    pc = "s_return"
        => /\ Len(business_info_list) = Len(s_profiles)
           /\ \A id \in ProfileIds \cup {business_info_list[i].profile :
                                          i \in 1..Len(business_info_list)} :
                CountOf(business_info_list, LAMBDA r : r.profile = id)
                  = CountOf(s_profiles, LAMBDA x : x = id)

\* s_handler has returned for five refs, two of them given twice, after a
\* wave attempt had failed.
C11_Witness ==
    /\ pc = "s_return"
    /\ Len(s_profiles) = 5
    /\ s_profiles[4] = s_profiles[1]
    /\ s_fails > 0
    /\ Len(business_info_list) = 5

\* C12: get_business_data does not raise on a fetched page whose markup
\* lacks a marker, and appends one record for every page of the wave.
C12_MissingMarkerGivesAbsentField ==
    (s_log # <<>> /\ s_log[Len(s_log)].ev = "ok" /\ pc \in {"s_pace", "raised"})
        => /\ err.type # "AttributeError"
           /\ Len(business_info_list) = Len(s_log[Len(s_log)].info) + Len(responses_list)

(***************************************************************************)
(* Properties of the record cleaning (SpecD): the raw texts are those of   *)
(* the one page in responses_list.                                         *)
(***************************************************************************)
\* The text without the label "Services: " when it starts with it.
WithoutLabel(text) ==
    IF OccursAt(text, ServicesLabel, 1)
    THEN SubSeq(text, Len(ServicesLabel) + 1, Len(text))
    ELSE text

\* The names between the ", " delimiters, none when there is no delimiter.
NamesOf(text) ==
    IF Contains(text, ServicesDelimiter) THEN Split(text, ServicesDelimiter) ELSE <<>>

\* the record of the one page has been produced
Extracted ==
    /\ pc \in {"s_pace", "s_for", "s_return", "done"}
    /\ Len(responses_list) = 1
    /\ Len(business_info_list) = 1

\* C13: the services stored for a record are the raw services text without
\* the literal prefix "Services: " (nothing else removed at either end),
\* split on ", " in order, and empty when the text has no ", ".
C13_ServicesPrefixRemovedThenSplit ==
    (Extracted /\ pc = "done" /\ table # <<>>)
        => table[Len(table)].services = NamesOf(WithoutLabel(responses_list[1].text.services))

\* The value the reviews field is to hold.
ExpectedReviews(text) ==
    IF \E i \in 1..Len(text) : IsDigit(text[i])
    THEN IntValue(DigitsValue(FirstDigitRun(text)))
    ELSE NoneValue

\* C14: the reviews field of a record is the integer value of the first
\* maximal run of digits of the raw text, and None when the raw text has no
\* digit, the empty text included.
C14_ReviewsFirstDigitRunOrNone ==
    Extracted => business_info_list[1].reviews = ExpectedReviews(responses_list[1].text.reviews)

\* A decimal numeral: an optional sign, then digits with at most one point.
IsDecimalNumeral(text) ==
    IsPointNumeral(IF text # <<>> /\ text[1] \in {"-", "+"} THEN Tail(text) ELSE text)

\* The value the rating field is to hold.
ExpectedRating(text) == IF IsDecimalNumeral(text) THEN FloatOf(text) ELSE NoneValue

\* C15: the rating field of a record is the numeric value of the raw text
\* when that is a decimal numeral and None for every other text, the empty
\* text included; the raw text never stays in the field.
C15_RatingNumeralOrNone ==
    Extracted => business_info_list[1].rating = ExpectedRating(responses_list[1].text.rating)

(***************************************************************************)
(* Properties of save_to_sql_ (SpecT).                                     *)
(***************************************************************************)
\* The rows a step has put behind the rows the table had.
AppendedRows == SubSeq(table', Len(table) + 1, Len(table'))

\* the first record of records that has the profile
FirstWithProfile(records, profile) ==
    records[CHOOSE i \in 1..Len(records) :
              /\ records[i].profile = profile
              /\ \A j \in 1..(i - 1) : records[j].profile # profile]

\* C16: a call of save_to_sql_ leaves the rows the table had as they were,
\* in place, and appends behind them at most one row per profile of the
\* records it was given, the row of the first record with that profile,
\* each with the given subject and location.
C16_SaveDeduplicatesTagsAndAppends ==
    [][pc = "s_return" =>
         /\ Len(table') >= Len(table)
         /\ SubSeq(table', 1, Len(table)) = table
         /\ \A i, j \in 1..Len(AppendedRows) :
              AppendedRows[i].profile = AppendedRows[j].profile => i = j
         /\ \A i \in 1..Len(AppendedRows) :
              /\ AppendedRows[i].business_type = SearchSubject
              /\ AppendedRows[i].location = SearchLocation
              /\ \E k \in 1..Len(business_info_list) :
                   business_info_list[k].profile = AppendedRows[i].profile
              /\ AppendedRows[i].business
                   = FirstWithProfile(business_info_list, AppendedRows[i].profile).business
         /\ \A k \in 1..Len(business_info_list) :
              \E i \in 1..Len(AppendedRows) :
                 AppendedRows[i].profile = business_info_list[k].profile]_vars

\* save_to_sql_ was given three records, two of profile "a" under different
\* business names, with a row of "a" in the table: the old row is there,
\* and behind it one row for "a", of the first record, and one for "b".
C16_Witness ==
    /\ pc = "done"
    /\ Len(business_info_list) = 3
    /\ business_info_list[1].profile = "a"
    /\ business_info_list[2].profile = "b"
    /\ business_info_list[3].profile = "a"
    /\ business_info_list[3].business # business_info_list[1].business
    /\ Len(table) = 3
    /\ table[1] = OldRow
    /\ table[2].profile = "a"
    /\ table[2].business = business_info_list[1].business
    /\ table[3].profile = "b"

(***************************************************************************)
(* Properties of the whole run (Spec), continued.                          *)
(***************************************************************************)
\* The positions of the control thread inside s_handler.
SPhase ==
    {"s_call", "s_for", "s_try", "s_gather", "s_close", "s_sleep", "s_session",
     "s_extract", "s_pace", "s_return"}

\* C17: the bootstrap has returned before anything else runs; a detail
\* fetch is issued only inside s_handler, which was called with the list
\* p_handler returned; the sink is invoked at most once, only after the for
\* loop of s_handler has ended, with the list s_handler returned and the
\* subject and location of the run, and a run that ends has invoked it.
C17_StepsInOrderAndOneHandOff ==
    /\ pc \notin {"main_boot", "raised"} => boots >= 1
    /\ (pc \in SPhase \/ s_log # <<>>)
         => /\ pc \in SPhase \cup {"done", "raised"}
            /\ pc = "raised" => err.by \in {"s_handler", "save_to_sql_"}
            /\ s_profiles = profiles_list
            /\ p_log = <<>>
    /\ Len(sink) <= 1
    /\ pc = "done" => Len(sink) = 1
    /\ sink # <<>>
         => /\ pc \in {"done", "raised"}
            /\ pc = "raised" => err.by = "save_to_sql_"
            /\ wave_i > Len(profiles_arrays)
            /\ sink[1] = [records |-> business_info_list,
                          location |-> SearchLocation, subject |-> SearchSubject]

\* A run has ended: the sink got three records or more, after a fetch had
\* failed and had been repeated.
C17_Witness ==
    /\ pc = "done"
    /\ Len(sink) = 1
    /\ Len(sink[1].records) >= 3
    /\ p_fails + s_fails > 0
    /\ Len(table) >= 1

\* The number of entries of the listing pages in pages, a page that is
\* there more than once counted once (as it was parsed first).
RECURSIVE EntriesOfPages(_)
EntriesOfPages(pages) ==
    IF pages = <<>>
    THEN 0
    ELSE LET front == SubSeq(pages, 1, Len(pages) - 1)
             last == pages[Len(pages)]
         IN  EntriesOfPages(front)
               + (IF \E i \in 1..Len(front) : front[i].off = last.off THEN 0 ELSE last.n)

\* C18: in a run whose bootstrap reported no second page and in which no
\* fetch failed, the sink gets as many records as the listing pages of the
\* result set have entries, each with its profile and business name.
C18_OneRecordPerListingEntry ==
    (pc = "done" /\ Len(pages_contents) = 1 /\ p_fails + s_fails = 0)
        => /\ Len(sink[1].records) = EntriesOfPages(parsed_pages)
           /\ \A i \in 1..Len(sink[1].records) :
                /\ sink[1].records[i].profile \in ProfileIds
                /\ sink[1].records[i].business = "name"

(***************************************************************************)
(* Properties of p_handler (SpecP), continued.                             *)
(***************************************************************************)
\* The bodies whose identifiers p_handler appended, in order.
AppendedBodies ==
    LET hits == SelectSeq(p_log, LAMBDA e : e.ev = "append")
    IN  [i \in 1..Len(hits) |-> ParsedProfiles(hits[i].resp.body)]

\* C19: when p_handler asks for an offset, every smaller offset of the
\* sequence has had a fetch that returned and, after it, its identifiers
\* appended; the offsets are appended in strictly increasing order and the
\* profile list is the identifiers of the pages in that order.
C19_OffsetsInIncreasingOrder ==
    /\ \A j \in 1..Len(p_log) :
         IsGet(p_log[j]) =>
            \A m \in 1..Len(pages_available) :
               pages_available[m] < p_log[j].off =>
                  \E g, a \in 1..(j - 1) :
                     /\ g < a
                     /\ p_log[g].ev = "get" /\ p_log[g].off = pages_available[m]
                     /\ p_log[a].ev = "append" /\ p_log[a].off = pages_available[m]
    /\ \A i \in 1..(Len(LogOffsets("append")) - 1) :
         LogOffsets("append")[i] < LogOffsets("append")[i + 1]
    /\ profiles_list = Flatten(AppendedBodies)

\* p_handler has returned with the identifiers of offsets 0, 20 and 40, four
\* or more of them, and the fetch for offset 20 had raised once.
C19_Witness ==
    /\ pc = "p_return"
    /\ LogOffsets("append") = <<0, 20, 40>>
    /\ Len(profiles_list) >= 4
    /\ \E i \in 1..Len(p_log) : p_log[i].ev = "get_raised" /\ p_log[i].off = 20

\* C20: a listing fetch is issued with the url and the headers of the
\* context the bootstrap provider returned last.
C20_FetchUsesLatestContext ==
    pc = "p_try" => (url.ctx = boots /\ session.headers = boots)

(***************************************************************************)
(* Properties of the sessions of s_handler (SpecS).                        *)
(***************************************************************************)
\* The failed attempts logged before position j.
FailsBefore(j) == Cardinality({m \in 1..(j - 1) : s_log[m].ev = "fail"})

\* C21: the first attempt runs on the first session; an attempt that follows
\* a failed attempt runs on a session, with a User-Agent, that no earlier
\* attempt had, created after the failed session was closed; an attempt
\* that follows a successful wave runs on the session and the User-Agent of
\* that wave.
C21_NewSessionIffAttemptFailed ==
    /\ \A j \in 1..Len(s_log) :
         s_log[j].ev = "issue" =>
            /\ s_log[j].session = 1 + FailsBefore(j)
            /\ \A i \in 1..(j - 1) :
                 s_log[i].ev = "issue" =>
                    /\ s_log[i].session <= s_log[j].session
                    /\ (s_log[i].session = s_log[j].session) <=> (s_log[i].ua = s_log[j].ua)
                    /\ NextAttempt(i, j) =>
                         ((s_log[j].session # s_log[i].session) <=> (s_log[i + 1].ev = "fail"))
    /\ pc \in {"s_sleep", "s_session"} => ~async_session.open
    /\ pc \in {"s_try", "s_gather"} => async_session.open

\* An attempt of the first wave failed, the retry ran on the second session
\* and succeeded, and the second wave was issued on that second session.
C21_Witness ==
    \E i, j, k \in 1..Len(s_log) :
        /\ NextAttempt(i, j)
        /\ NextAttempt(j, k)
        /\ s_log[i + 1].ev = "fail"
        /\ s_log[i].session = 1
        /\ s_log[j].session = 2
        /\ s_log[j + 1].ev = "ok"
        /\ s_log[k].wave = 2
        /\ s_log[k].session = 2
        /\ s_log[k].ua = s_log[j].ua

\* C22: the steps that refresh the session after a failed attempt leave the
\* module-level SECONDARY_STAGE_HEADERS as it was, and while a wave is in
\* flight neither that dict nor the User-Agent of the session changes.
C22_RefreshLeavesDefaultHeadersAlone ==
    [][/\ pc \in {"s_close", "s_sleep", "s_session"}
            => SECONDARY_STAGE_HEADERS' = SECONDARY_STAGE_HEADERS
       /\ pc = "s_gather"
            => /\ SECONDARY_STAGE_HEADERS' = SECONDARY_STAGE_HEADERS
               /\ async_session'.ua = async_session.ua]_vars

(***************************************************************************)
(* The offsets of p_handler and the bootstraps it makes (SpecP).           *)
(***************************************************************************)
\* The fetches that returned, logged before position j.
GetsBefore(j) == Cardinality({m \in 1..(j - 1) : p_log[m].ev = "get"})

\* C25: once p_handler has computed its offsets they stay the sequence the
\* arguments of the call gave, whatever a later bootstrap reports: every
\* fetch, first try or retry, asks for the offset that follows the fetches
\* that returned, and p_handler returns after fetching exactly that
\* sequence.
C25_OffsetsFixedAtCallStart ==
    pc \in {"p_for", "p_try", "p_parse", "p_close", "p_sleep", "p_boot", "p_session", "p_return"}
        => /\ pages_available = PagesAvailable(p_args.next_page, p_args.results_count)
           /\ \A j \in 1..Len(p_log) :
                IsGet(p_log[j]) =>
                   /\ GetsBefore(j) < Len(pages_available)
                   /\ p_log[j].off = pages_available[GetsBefore(j) + 1]
           /\ pc = "p_return" => ReturnedOffsets = pages_available

\* p_handler(False, 47, ..) failed on its first offset, the bootstrap it then
\* made reported no result and a captured second page, and p_handler
\* returned after fetching 0, 20 and 40.
C25_Witness ==
    /\ pc = "p_return"
    /\ p_args = [results_count |-> 47, next_page |-> FALSE]
    /\ results_count = 0
    /\ next_page
    /\ ReturnedOffsets = <<0, 20, 40>>
    /\ \E i \in 1..Len(p_log) : p_log[i].ev = "get_raised" /\ p_log[i].off = 0

(***************************************************************************)
(* The order of the records of s_handler (SpecS).                          *)
(***************************************************************************)
\* C26: the records are in the order of the input refs, whatever the order
\* in which the fetches of a wave finished: gather() hands the pages over in
\* the order of the batch, the records collected so far are those of a
\* prefix of the input, record i for ref i, and when s_handler returns there
\* is one for every ref.
C26_RecordsInInputOrder ==
    /\ pc = "s_extract" =>
         /\ Len(responses_list) = Len(profiles_arrays[wave_i])
         /\ \A i \in 1..Len(responses_list) :
              responses_list[i].url = profiles_arrays[wave_i][i]
    /\ pc \in {"s_for", "s_try", "s_gather", "s_close", "s_sleep", "s_session", "s_extract",
               "s_pace", "s_return"} =>
         /\ Len(business_info_list) <= Len(s_profiles)
         /\ \A i \in 1..Len(business_info_list) : business_info_list[i].profile = s_profiles[i]
    /\ pc = "s_return" => Len(business_info_list) = Len(s_profiles)

\* s_handler has returned for four refs in two waves; in the last wave the
\* fetch of the fourth ref finished before the fetch of the third.
C26_Witness ==
    /\ pc = "s_return"
    /\ Len(s_profiles) = 4
    /\ Len(business_info_list) = 4
    /\ reordered
    /\ business_info_list[3].profile = s_profiles[3]
    /\ business_info_list[4].profile = s_profiles[4]
    /\ s_profiles[3] # s_profiles[4]
(***************************************************************************)
(* Properties of a process that runs the crawl more than once (SpecR).     *)
(***************************************************************************)
\* C23: the Primary_Stage_Subject_input that main has just constructed has
\* an empty profiles_list, and the Secondary_Stage it has just constructed
\* has an empty business_info_list, also in a call that follows an earlier
\* call in the same process.
C23_NewInstancesStartEmpty ==
    /\ pc = "main_parse" => profiles_list = <<>>
    /\ pc = "s_call" => business_info_list = <<>>
(***************************************************************************)
(* Termination of the two crawl loops (SpecL).                             *)
(***************************************************************************)
\* The waves whose attempt succeeded, in the order of the log.
OkWaves ==
    LET hits == SelectSeq(s_log, LAMBDA e : e.ev = "ok")
    IN  [i \in 1..Len(hits) |-> hits[i].wave]

\* C24: where the bootstrap never fails and no fetch and no wave fails for
\* ever, a call of p_handler returns in the end and a call of s_handler
\* returns in the end, p_handler with one successful fetch for each of its
\* offsets and s_handler with one successful attempt for each of its waves.
C24_BothLoopsEnd ==
    /\ (pc = "p_call") ~> (pc = "p_return")
    /\ (pc = "s_call") ~> (pc = "s_return")
    /\ [](pc = "p_return" => ReturnedOffsets = pages_available)
    /\ [](pc = "s_return" => OkWaves = [i \in 1..Len(profiles_arrays) |-> i])
=============================================================================
